---------------------------- MODULE Spec2Model ----------------------------
(* A state-machine model of src/src/text-to-matrix.py: the font size      *)
(* searches, the per-glyph threshold, the shared row mask, the row        *)
(* encoder and the font_to_pixels pipeline that ties them together.       *)
(*                                                                        *)
(* The font engine (PIL) is the environment: the metrics of a probe       *)
(* string grow with the size along a slope fixed by the font, a glyph's   *)
(* bounding box and raster are chosen by the engine, and every engine     *)
(* call may raise.                                                        *)
EXTENDS Integers, Sequences, FiniteSets, TLC

\* ------------------------------------------------------------ bounds
\* Largest pixel limit handed to font_to_pixels.
MaxLimit == 3
\* Largest metric slope of a probe string (in half pixels per size unit).
MaxSlope == 2
\* Largest number of characters in all_letters.
MaxLetters == 2
\* Largest width/height of a single character's bounding box.
MaxCharDim == 1
\* Largest row width handed to to_bitfield on its own.
MaxBitWidth == 9
\* Largest number of rows of a RowMask handed to determine_final_height.
MaxRows == 3
\* Largest number of glyph masks handed to determine_final_height.
MaxGlyphs == 2
\* Largest canvas side handed to char_to_pixels on its own.
MaxCanvas == 2

\* ------------------------------------------------- program constants
\* Image.new('L', (width, height), 255): the canvas background.
BACKGROUND == 255
\* np.where(arr, 0, 255): the value of an "on" pixel of a PixelGrid.
ON == 255
FONT_SIZE == 60
LETTER_MAX_PX_WIDTH == 40
STR_MAX_PX_WIDTH == 360

OUTPUT_FILL == "1"
OUTPUT_EMPTY == "0"

\* font_size before any branch of font_to_pixels assigns it.
Unbound == 0 - 1

\* Sizes from SizeCap on are kept up to their parity only.  A probe of slope
\* >= 1 ends its search below SizeCap (see SizeCapUnreached); only a probe
\* measuring 0 at every size gets there, and it measures the same at each.
SizeCap == 2 * MaxLimit + 3

FontSizeOptions ==
    {"font_size", "letter_max_px_width", "str_max_px_width", "max_px_both", "other"}

VARIABLES
    \* font_to_pixels' parameters
    font_size_option, letter_max_px_width, str_max_px_width, all_letters,
    input_font_size,
    \* the font: slopes of the alphabet's height and of the sample's width
    font,
    \* control: the place in the code, and the exception that ended the run
    pc, err,
    \* locals of the running size search
    size, last_size, max_dim, px_limit,
    \* locals of font_to_pixels
    size_by_height, size_by_width, font_size,
    max_width, max_height, index,
    image, letters, masks, total_mask, actual_height,
    \* the output destination, and whether char_to_pixels has been called
    file, rasterized

cfgVars == <<font_size_option, letter_max_px_width, str_max_px_width,
             all_letters, input_font_size, font>>
searchVars == <<size, last_size, max_dim, px_limit>>
sizeVars == <<size_by_height, size_by_width, font_size>>
dimVars == <<max_width, max_height>>
glyphVars == <<image, letters, masks>>
trimVars == <<total_mask, actual_height>>
vars == <<cfgVars, pc, err, searchVars, sizeVars, dimVars, index,
          glyphVars, trimVars, file, rasterized>>

\* ----------------------------------------------------------- helpers
Max(a, b) == IF a > b THEN a ELSE b
Min(a, b) == IF a < b THEN a ELSE b

\* math.ceil(a / b) for a >= 0, b > 0
Ceil(a, b) == (a + b - 1) \div b

RECURSIVE Pow2(_)
Pow2(n) == IF n = 0 THEN 1 ELSE 2 * Pow2(n - 1)

\* ------------------------------------------------ get_letter_dimensions
\* The ink bounding box side of a probe string of slope k at font size s.
get_letter_dimensions(k, s) == (k * s) \div 2


\* ------------------------------------------------------- char_to_pixels
\* A plausible slip: every non-background pixel is taken as "on".
threshold_nonbackground(v) == IF v # BACKGROUND THEN ON ELSE 0

\* arr = np.where(arr, 0, 255), for one pixel of raster value v: a non-zero
\* value becomes 0, the value 0 becomes 255.
threshold(v) == IF v # 0 THEN 0 ELSE ON

\* arr_mask = (arr != 0).any(axis=1), for one row of the thresholded grid.
row_any(row) == \E c \in 1..Len(row) : row[c] # 0

\* char_to_pixels, from the image the engine has drawn: (arr, arr_mask).
char_to_pixels(img) ==
    LET arr == [r \in 1..Len(img) |-> [c \in 1..Len(img[r]) |-> threshold(img[r][c])]]
    IN  [arr |-> arr, arr_mask |-> [r \in 1..Len(arr) |-> row_any(arr[r])]]

\* ----------------------------------------------------- hex_with_padding
\* The hexadecimal digits of num >= 0, most significant first.
RECURSIVE HexDigits(_)
HexDigits(num) ==
    IF num < 16 THEN <<num>> ELSE Append(HexDigits(num \div 16), num % 16)

\* format(num, f'0{width}x'): at least width digits, zeros on the left.
format_hex(num, width) ==
    LET d == HexDigits(num)
    IN  IF Len(d) >= width THEN d
        ELSE [i \in 1..width |-> IF i <= width - Len(d) THEN 0 ELSE d[i - (width - Len(d))]]

\* hex_with_padding: the literals '0x' + hex_str[i:i + 2], each given by its
\* one or two digits.
hex_with_padding(num, width) ==
    LET hex_str == format_hex(num, width)
    IN  [j \in 1..Ceil(Len(hex_str), 2) |->
            SubSeq(hex_str, 2 * j - 1, Min(2 * j, Len(hex_str)))]

\* ------------------------------------------------------------ to_bitfield
\* int(''.join(map(str, row)), 2) of a non-empty row of 0/1.
RECURSIVE int_base2(_)
int_base2(bits) ==
    IF Len(bits) = 0 THEN 0
    ELSE 2 * int_base2(SubSeq(bits, 1, Len(bits) - 1)) + bits[Len(bits)]

\* new_array: zeros of max_height x max_width with arr copied to its top left.
new_array(arr, mh, mw) ==
    [r \in 1..mh |-> [c \in 1..mw |->
        IF r <= Len(arr) /\ c <= Len(arr[r]) THEN arr[r][c] ELSE 0]]

\* width = math.ceil(max_width / 4)
hex_width(mw) == Ceil(mw, 4)

\* One output line of to_bitfield: the row's literals and its comment.
encode_row(row, mw) ==
    LET binary == [c \in 1..mw |-> IF row[c] # 0 THEN 1 ELSE 0]
    IN  [hexa |-> hex_with_padding(int_base2(binary), hex_width(mw)),
         com  |-> [c \in 1..mw |-> IF row[c] # 0 THEN OUTPUT_FILL ELSE OUTPUT_EMPTY]]

\* to_bitfield raises ValueError on int('', 2): a row of no columns.
to_bitfield_raises(mh, mw) == mh > 0 /\ mw = 0

\* to_bitfield: the lines written for one glyph.
to_bitfield(arr, mh, mw) ==
    LET na == new_array(arr, mh, mw)
    IN  [r \in 1..mh |-> encode_row(na[r], mw)]

\* ---------------------------------------------------- determine_final_height
\* A plausible slip: the row below is not looked at.
dilated_no_lower(mask, i) == mask[i] \/ mask[Max(i - 1, 1)]

\* A plausible slip: the neighbourhood is two rows wide.
dilated_two(mask, i) ==
    \/ mask[i] \/ mask[Max(i - 1, 1)] \/ mask[Min(i + 1, Len(mask))]
    \/ mask[Max(i - 2, 1)]

\* mask[index] or mask[max(index - 1, 0)] or mask[min(index + 1, len(mask) - 1)],
\* rows numbered from 1.
dilated(mask, i) ==
    mask[i] \/ mask[Max(i - 1, 1)] \/ mask[Min(i + 1, Len(mask))]

\* total_mask after the two loops over masks (all of the length of masks[-1]).
final_mask(ms) ==
    [i \in 1..Len(ms[Len(ms)]) |-> \E g \in 1..Len(ms) : dilated(ms[g], i)]

\* A plausible slip: the rows that are dropped are counted.
count_false(tm) == Cardinality({i \in 1..Len(tm) : ~tm[i]})

\* total_mask.count(True)
count_true(tm) == Cardinality({i \in 1..Len(tm) : tm[i]})

\* determine_final_height raises IndexError on masks[-1] of an empty list.
determine_final_height_raises(ms) == Len(ms) = 0

determine_final_height(ms) ==
    LET tm == final_mask(ms)
    IN  [total_mask |-> tm, actual_height |-> count_true(tm)]

\* char_arr[total_mask]: the rows of arr where total_mask is true, in order.
RECURSIVE crop(_, _)
crop(arr, tm) ==
    IF Len(arr) = 0 THEN <<>>
    ELSE LET rest == crop(SubSeq(arr, 1, Len(arr) - 1), SubSeq(tm, 1, Len(tm) - 1))
         IN  IF tm[Len(arr)] THEN Append(rest, arr[Len(arr)]) ELSE rest


\* ------------------------------------------------ the output destination
Untouched == [state |-> "untouched", text |-> <<>>]

\* generate_header()
generate_header == [kind |-> "header"]

\* generate_footer(max_width, actual_height)
generate_footer(mw, ah) == [kind |-> "footer", width |-> mw, height |-> ah]

\* ------------------------------------------------------ the size searches
\* size += 1, the sizes from SizeCap on kept up to their parity.
Inc(s) == IF s <= SizeCap THEN s + 1 ELSE SizeCap

\* if max_width > px_width: return last_size / return size
search_result == IF max_dim > px_limit THEN last_size ELSE size

\* The first lines of determine_font_size_by_max_height: its locals.
EnterHeightSearch ==
    /\ max_dim' = 0
    /\ size' = 1
    /\ px_limit' = letter_max_px_width - 2
    /\ last_size' = 1
    /\ pc' = "h_loop"

\* The first lines of determine_font_size_by_max_width: its locals.
EnterWidthSearch ==
    /\ max_dim' = 0
    /\ size' = 1
    /\ px_limit' = str_max_px_width
    /\ last_size' = 1
    /\ pc' = "w_loop"

\* The exception exc ends the run; the locals are left as they are.
Raise(exc) ==
    /\ pc' = "error"
    /\ err' = exc

\* font_to_pixels, the branch on font_size_option.
Start ==
    /\ pc = "start"
    /\ \/ /\ font_size_option = "font_size"
          /\ font_size' = input_font_size
          /\ pc' = "load"
          /\ UNCHANGED <<searchVars, size_by_height, size_by_width>>
       \/ /\ font_size_option \in {"letter_max_px_width", "max_px_both"}
          /\ EnterHeightSearch
          /\ UNCHANGED sizeVars
       \/ /\ font_size_option = "str_max_px_width"
          /\ EnterWidthSearch
          /\ UNCHANGED sizeVars
       \/ /\ font_size_option \notin
                {"font_size", "letter_max_px_width", "str_max_px_width", "max_px_both"}
          /\ pc' = "load"
          /\ UNCHANGED <<searchVars, sizeVars>>
    /\ UNCHANGED <<cfgVars, err, dimVars, index, glyphVars, trimVars, file, rasterized>>

\* determine_font_size_by_max_height, one turn of its while loop.
HeightSearchLoop ==
    /\ pc = "h_loop"
    /\ max_dim < px_limit
    /\ \/ /\ max_dim' = get_letter_dimensions(font.height, size)
          /\ last_size' = size
          /\ size' = Inc(size)
          /\ UNCHANGED <<pc, err, px_limit>>
       \/ /\ Raise("engine")
          /\ UNCHANGED searchVars
    /\ UNCHANGED <<cfgVars, sizeVars, dimVars, index, glyphVars, trimVars, file, rasterized>>

\* determine_font_size_by_max_height returns, and font_to_pixels goes on.
HeightSearchReturn ==
    /\ pc = "h_loop"
    /\ ~(max_dim < px_limit)
    /\ \/ /\ font_size_option = "letter_max_px_width"
          /\ font_size' = search_result
          /\ pc' = "load"
          /\ UNCHANGED <<searchVars, size_by_height, size_by_width>>
       \/ /\ font_size_option = "max_px_both"
          /\ size_by_height' = search_result
          /\ EnterWidthSearch
          /\ UNCHANGED <<size_by_width, font_size>>
    /\ UNCHANGED <<cfgVars, err, dimVars, index, glyphVars, trimVars, file, rasterized>>

\* determine_font_size_by_max_width, one turn of its while loop.
WidthSearchLoop ==
    /\ pc = "w_loop"
    /\ max_dim < px_limit
    /\ \/ /\ max_dim' = get_letter_dimensions(font.width, size)
          /\ last_size' = size
          /\ size' = Inc(size)
          /\ UNCHANGED <<pc, err, px_limit>>
       \/ /\ Raise("engine")
          /\ UNCHANGED searchVars
    /\ UNCHANGED <<cfgVars, sizeVars, dimVars, index, glyphVars, trimVars, file, rasterized>>

\* font_size = min(size_by_height, size_by_width)
resolve_both(by_height, by_width) == Min(by_height, by_width)

\* determine_font_size_by_max_width returns, and font_to_pixels goes on.
WidthSearchReturn ==
    /\ pc = "w_loop"
    /\ ~(max_dim < px_limit)
    /\ \/ /\ font_size_option = "str_max_px_width"
          /\ font_size' = search_result
          /\ UNCHANGED <<size_by_height, size_by_width>>
       \/ /\ font_size_option = "max_px_both"
          /\ size_by_width' = search_result
          /\ font_size' = resolve_both(size_by_height, search_result)
          /\ UNCHANGED size_by_height
    /\ pc' = "load"
    /\ UNCHANGED <<cfgVars, err, searchVars, dimVars, index, glyphVars, trimVars,
                   file, rasterized>>

\* --------------------------------------------------------- font_to_pixels
\* A plausible slip: the with-block is hoisted above the rasterization, so
\* the destination is opened (and truncated) before the engine is done.
LoadFontOpenFirst ==
    /\ pc = "load"
    /\ \/ /\ font_size = Unbound
          /\ Raise("UnboundLocalError")
          /\ UNCHANGED <<dimVars, index, file>>
       \/ /\ font_size # Unbound
          /\ file' = [state |-> "open", text |-> <<generate_header>>]
          /\ pc' = "dims"
          /\ max_width' = 0
          /\ max_height' = 0
          /\ index' = 0
          /\ UNCHANGED err
       \/ /\ font_size # Unbound
          /\ Raise("engine")
          /\ UNCHANGED <<dimVars, index, file>>
    /\ UNCHANGED <<cfgVars, searchVars, sizeVars, glyphVars, trimVars, rasterized>>

\* font_inst = ImageFont.truetype(font=font_path, size=font_size), and the
\* first line of get_max_letter_dimensions.
LoadFont ==
    /\ pc = "load"
    /\ \/ /\ font_size = Unbound
          /\ Raise("UnboundLocalError")
          /\ UNCHANGED <<dimVars, index>>
       \/ /\ font_size # Unbound
          /\ pc' = "dims"
          /\ max_width' = 0
          /\ max_height' = 0
          /\ index' = 0
          /\ UNCHANGED err
       \/ /\ font_size # Unbound
          /\ Raise("engine")
          /\ UNCHANGED <<dimVars, index>>
    /\ UNCHANGED <<cfgVars, searchVars, sizeVars, glyphVars, trimVars, file, rasterized>>

\* get_max_letter_dimensions, one turn of its loop: the engine measures the
\* next character.
MeasureChar ==
    /\ pc = "dims"
    /\ index < all_letters
    /\ \/ /\ \E char_width \in 0..MaxCharDim, char_height \in 0..MaxCharDim :
                /\ max_width' = Max(char_width, max_width)
                /\ max_height' = Max(char_height, max_height)
          /\ index' = index + 1
          /\ UNCHANGED <<pc, err>>
       \/ /\ Raise("engine")
          /\ UNCHANGED <<dimVars, index>>
    /\ UNCHANGED <<cfgVars, searchVars, sizeVars, glyphVars, trimVars, file, rasterized>>

\* get_max_letter_dimensions returns: max_height *= 2.
MaxDimsReturn ==
    /\ pc = "dims"
    /\ index = all_letters
    /\ max_height' = 2 * max_height
    /\ index' = 0
    /\ pc' = "raster"
    /\ UNCHANGED <<cfgVars, err, searchVars, sizeVars, max_width, glyphVars, trimVars,
                   file, rasterized>>

\* The images the engine draws on a canvas of h rows and w columns in a run
\* of font_to_pixels: the text is drawn from the top of the canvas, and its
\* first k rows are inked from side to side.
GlyphImages(h, w) ==
    {[r \in 1..h |-> [c \in 1..w |-> IF r <= k THEN 0 ELSE BACKGROUND]] : k \in 0..h}

\* The loop over all_letters, one turn: char_to_pixels on the next character.
RasterChar ==
    /\ pc = "raster"
    /\ index < all_letters
    /\ rasterized' = TRUE
    /\ \/ /\ \E img \in GlyphImages(max_height, max_width) :
                /\ letters' = Append(letters, char_to_pixels(img).arr)
                /\ masks' = Append(masks, char_to_pixels(img).arr_mask)
          /\ index' = index + 1
          /\ UNCHANGED <<pc, err, image>>
       \/ /\ Raise("engine")
          /\ UNCHANGED <<glyphVars, index>>
    /\ UNCHANGED <<cfgVars, searchVars, sizeVars, dimVars, trimVars, file>>

\* total_mask, actual_height = determine_final_height(masks)
FinalHeight ==
    /\ pc = "raster"
    /\ index = all_letters
    /\ \/ /\ determine_final_height_raises(masks)
          /\ Raise("IndexError")
          /\ UNCHANGED trimVars
       \/ /\ ~determine_final_height_raises(masks)
          /\ total_mask' = determine_final_height(masks).total_mask
          /\ actual_height' = determine_final_height(masks).actual_height
          /\ pc' = "open"
          /\ UNCHANGED err
    /\ UNCHANGED <<cfgVars, searchVars, sizeVars, dimVars, index, glyphVars, file,
                   rasterized>>

\* with open(output_file_path, 'w') as file: file.write(generate_header())
OpenOutput ==
    /\ pc = "open"
    /\ \/ /\ file' = [state |-> "open", text |-> <<generate_header>>]
          /\ index' = 0
          /\ pc' = "write"
          /\ UNCHANGED err
       \/ /\ Raise("OSError")
          /\ UNCHANGED <<file, index>>
    /\ UNCHANGED <<cfgVars, searchVars, sizeVars, dimVars, glyphVars, trimVars,
                   rasterized>>

\* The loop over letters, one turn: the glyph is cropped and encoded.
WriteGlyph ==
    /\ pc = "write"
    /\ index < Len(letters)
    /\ IF to_bitfield_raises(actual_height, max_width)
       THEN /\ Raise("ValueError")
            /\ file' = [file EXCEPT !.state = "closed"]
            /\ UNCHANGED index
       ELSE /\ file' = [file EXCEPT !.text = Append(@,
                          to_bitfield(crop(letters[index + 1], total_mask),
                                      actual_height, max_width))]
            /\ index' = index + 1
            /\ UNCHANGED <<pc, err>>
    /\ UNCHANGED <<cfgVars, searchVars, sizeVars, dimVars, glyphVars, trimVars,
                   rasterized>>

\* file.write(generate_footer(max_width, actual_height)), and the file closes.
WriteFooter ==
    /\ pc = "write"
    /\ index = Len(letters)
    /\ file' = [state |-> "closed",
                text |-> Append(file.text, generate_footer(max_width, actual_height))]
    /\ pc' = "done"
    /\ UNCHANGED <<cfgVars, err, searchVars, sizeVars, dimVars, index, glyphVars,
                   trimVars, rasterized>>

\* ------------------------------------------------------------------ runs
\* The limits a run is given: from a negative one up to MaxLimit.
Limits == (0 - 1)..MaxLimit

UsesHeightLimit(opt) == opt \in {"letter_max_px_width", "max_px_both"}
UsesWidthLimit(opt) == opt \in {"str_max_px_width", "max_px_both"}

\* The state right after the call: nothing computed, nothing written.
Fresh ==
    /\ err = "none"
    /\ size = 0 /\ last_size = 0 /\ max_dim = 0 /\ px_limit = 0
    /\ size_by_height = Unbound /\ size_by_width = Unbound /\ font_size = Unbound
    /\ max_width = 0 /\ max_height = 0 /\ index = 0
    /\ image = <<>> /\ letters = <<>> /\ masks = <<>>
    /\ total_mask = <<>> /\ actual_height = 0
    /\ file = Untouched
    /\ rasterized = FALSE

\* A call of font_to_pixels.  A parameter the chosen option never reads has
\* the value main() passes; an empty alphabet measures 0 at every size.
Init ==
    /\ font_size_option \in FontSizeOptions
    /\ letter_max_px_width \in
          IF UsesHeightLimit(font_size_option) THEN Limits ELSE {LETTER_MAX_PX_WIDTH}
    /\ str_max_px_width \in
          IF UsesWidthLimit(font_size_option) THEN Limits ELSE {STR_MAX_PX_WIDTH}
    /\ all_letters \in 0..MaxLetters
    /\ input_font_size = FONT_SIZE
    /\ font \in [height : IF UsesHeightLimit(font_size_option) /\ all_letters > 0
                            THEN 0..MaxSlope ELSE {0},
                 width  : IF UsesWidthLimit(font_size_option)
                            THEN 0..MaxSlope ELSE {0}]
    /\ pc = "start"
    /\ Fresh

Next ==
    \/ Start
    \/ HeightSearchLoop
    \/ HeightSearchReturn
    \/ WidthSearchLoop
    \/ WidthSearchReturn
    \/ LoadFont
    \/ MeasureChar
    \/ MaxDimsReturn
    \/ RasterChar
    \/ FinalHeight
    \/ OpenOutput
    \/ WriteGlyph
    \/ WriteFooter

Spec == Init /\ [][Next]_vars

\* The program is one sequential thread: a step that can be taken is taken.
FairSpec == Init /\ [][Next]_vars /\ WF_vars(Next)

\* ------------------------------------------- the functions on their own
\* The parameters main() passes, for the runs below that read none of them.
MainConfig ==
    /\ font_size_option = "font_size"
    /\ letter_max_px_width = LETTER_MAX_PX_WIDTH
    /\ str_max_px_width = STR_MAX_PX_WIDTH
    /\ input_font_size = FONT_SIZE
    /\ font = [height |-> 0, width |-> 0]

NoSearch ==
    /\ err = "none"
    /\ size = 0 /\ last_size = 0 /\ max_dim = 0 /\ px_limit = 0
    /\ size_by_height = Unbound /\ size_by_width = Unbound

\* The images of the runs below: each row is blank or inked from side to
\* side.
RowImages(h, w) ==
    {[r \in 1..h |-> [c \in 1..w |-> IF inked[r] THEN 0 ELSE BACKGROUND]] :
        inked \in [1..h -> BOOLEAN]}

\* font_to_pixels from determine_final_height on: the rasterization loop has
\* ended with n glyphs on a canvas of h rows and w columns.
TrimInit ==
    /\ MainConfig
    /\ NoSearch
    /\ font_size = FONT_SIZE
    /\ \E n \in 0..MaxGlyphs, h \in 0..MaxRows, w \in 0..MaxCharDim :
          /\ all_letters = n
          /\ index = n
          /\ max_width = w
          /\ max_height = h
          /\ rasterized = (n > 0)
          /\ \E imgs \in [1..n -> RowImages(h, w)] :
                /\ letters = [g \in 1..n |-> char_to_pixels(imgs[g]).arr]
                /\ masks = [g \in 1..n |-> char_to_pixels(imgs[g]).arr_mask]
    /\ image = <<>>
    /\ total_mask = <<>> /\ actual_height = 0
    /\ file = Untouched
    /\ pc = "raster"

TrimNext ==
    \/ FinalHeight
    \/ OpenOutput
    \/ WriteGlyph
    \/ WriteFooter

TrimSpec == TrimInit /\ [][TrimNext]_vars

\* A call of char_to_pixels, after draw.text has drawn on the canvas: a
\* canvas of at most 2 * MaxCanvas pixels of background or full ink, with
\* one pixel of any of the 256 levels.
PixelInit ==
    /\ MainConfig
    /\ NoSearch
    /\ font_size = FONT_SIZE
    /\ all_letters = 1
    /\ index = 0
    /\ \E h \in 1..MaxCanvas, w \in 1..MaxCanvas :
          /\ h * w <= 2 * MaxCanvas
          /\ max_height = h
          /\ max_width = w
          /\ \E base \in [1..h -> [1..w -> {0, BACKGROUND}]] :
                \E r \in 1..h, c \in 1..w, v \in 0..255 :
                   image = [base EXCEPT ![r][c] = v]
    /\ letters = <<>> /\ masks = <<>>
    /\ total_mask = <<>> /\ actual_height = 0
    /\ file = Untouched
    /\ rasterized = FALSE
    /\ pc = "char_to_pixels"

\* char_to_pixels returns (arr, arr_mask); the caller appends them.
CharToPixels ==
    /\ pc = "char_to_pixels"
    /\ letters' = Append(letters, char_to_pixels(image).arr)
    /\ masks' = Append(masks, char_to_pixels(image).arr_mask)
    /\ rasterized' = TRUE
    /\ pc' = "returned"
    /\ UNCHANGED <<cfgVars, err, searchVars, sizeVars, dimVars, index, image,
                   trimVars, file>>

PixelNext == CharToPixels

PixelSpec == PixelInit /\ [][PixelNext]_vars

\* A call of to_bitfield on an open file: one row of arr_w <= max_width
\* pixels, to be encoded at max_width.
BitInit ==
    /\ MainConfig
    /\ NoSearch
    /\ font_size = FONT_SIZE
    /\ all_letters = 1
    /\ index = 0
    /\ max_width \in 0..MaxBitWidth
    /\ \E arr_w \in 0..max_width :
          /\ (arr_w = 0) = (max_width = 0)
          /\ letters \in {<<row>> : row \in [1..1 -> [1..arr_w -> {0, ON}]]}
    /\ masks = <<[r \in 1..1 |-> row_any(letters[1][r])]>>
    /\ image = <<>>
    /\ max_height = 1
    /\ total_mask = <<TRUE>> /\ actual_height = 1
    /\ file = [state |-> "open", text |-> <<>>]
    /\ rasterized = TRUE
    /\ pc = "to_bitfield"

\* to_bitfield(file, arr, max_height, max_width)
ToBitfield ==
    /\ pc = "to_bitfield"
    /\ IF to_bitfield_raises(actual_height, max_width)
       THEN /\ Raise("ValueError")
            /\ UNCHANGED file
       ELSE /\ file' = [file EXCEPT !.text =
                          Append(@, to_bitfield(letters[1], actual_height, max_width))]
            /\ pc' = "returned"
            /\ UNCHANGED err
    /\ UNCHANGED <<cfgVars, searchVars, sizeVars, dimVars, index, glyphVars,
                   trimVars, rasterized>>

BitNext == ToBitfield

BitSpec == BitInit /\ [][BitNext]_vars

\* ================================================================ claims
\* The measured height of the alphabet and width of the sample at size s.
HeightAt(s) == get_letter_dimensions(font.height, s)
WidthAt(s) == get_letter_dimensions(font.width, s)

\* The value determine_font_size_by_max_height returned, once it has.
HeightReturned ==
    \/ font_size_option = "letter_max_px_width" /\ font_size # Unbound
    \/ font_size_option = "max_px_both" /\ size_by_height # Unbound
HeightResult ==
    IF font_size_option = "max_px_both" THEN size_by_height ELSE font_size

\* The value determine_font_size_by_max_width returned, once it has.
WidthReturned ==
    \/ font_size_option = "str_max_px_width" /\ font_size # Unbound
    \/ font_size_option = "max_px_both" /\ size_by_width # Unbound
WidthResult ==
    IF font_size_option = "max_px_both" THEN size_by_width ELSE font_size

\* The identification of the sizes from SizeCap on loses nothing: a search
\* gets there only on a probe that measures 0 at every size, and no search
\* returns such a size.
SizeCapUnreached ==
    /\ (pc = "h_loop" /\ size >= SizeCap) => font.height = 0
    /\ (pc = "w_loop" /\ size >= SizeCap) => font.width = 0
    /\ HeightReturned => HeightResult < SizeCap
    /\ WidthReturned => WidthResult < SizeCap

\* C1: when size 1 fits and the probe grows with the size, each search
\* returns the largest size whose measured dimension does not exceed the
\* limit: the width at the returned size is <= W and at the next size > W,
\* and the height at the returned size is <= H - 2 and at the next > H - 2.
C1_LargestFittingSize ==
    /\ (WidthReturned /\ font.width >= 1 /\ WidthAt(1) <= str_max_px_width)
          => /\ WidthAt(WidthResult) <= str_max_px_width
             /\ WidthAt(WidthResult + 1) > str_max_px_width
    /\ (HeightReturned /\ font.height >= 1 /\ HeightAt(1) <= letter_max_px_width - 2)
          => /\ HeightAt(HeightResult) <= letter_max_px_width - 2
             /\ HeightAt(HeightResult + 1) > letter_max_px_width - 2

\* C4: in mode 'max_px_both' the resolved size is the smaller of the two
\* search results, and when size 1 fits both limits the alphabet's height at
\* the resolved size is <= the letter limit - 2 and the sample's width at
\* the resolved size is <= the width limit.
C4_BothLimitsHold ==
    (font_size_option = "max_px_both" /\ font_size # Unbound)
       => /\ font_size = IF size_by_height < size_by_width
                         THEN size_by_height ELSE size_by_width
          /\ (HeightAt(1) <= letter_max_px_width - 2 /\ WidthAt(1) <= str_max_px_width)
                => /\ HeightAt(font_size) <= letter_max_px_width - 2
                   /\ WidthAt(font_size) <= str_max_px_width

\* C6: every run leaves the size searches: each search eventually returns a
\* size or raises.
C6_SearchTerminates == <>(pc \notin {"start", "h_loop", "w_loop"})

\* The configurations the error taxonomy names.
BadConfig ==
    \/ font_size_option \notin
          {"font_size", "letter_max_px_width", "str_max_px_width", "max_px_both"}
    \/ UsesHeightLimit(font_size_option) /\ letter_max_px_width <= 0
    \/ UsesWidthLimit(font_size_option) /\ str_max_px_width <= 0
    \/ all_letters = 0

\* C7: with an unknown size-selection mode, a non-positive limit of the
\* chosen mode or an empty alphabet, the run never rasterizes a glyph, never
\* opens the output, and does not run to completion.
C7_ConfigErrorsFailFast ==
    BadConfig => /\ ~rasterized
                 /\ file = Untouched
                 /\ pc \notin {"open", "write", "done"}

\* The places of font_to_pixels that call the font engine.
EnginePlaces == {"h_loop", "w_loop", "load", "dims", "raster"}

\* C8: a failure of the font engine ends the run with the output untouched,
\* and once the output is opened no place that calls the engine is entered.
C8_EngineFailureLeavesOutputUntouched ==
    /\ (pc = "error" /\ err = "engine") => file = Untouched
    /\ file.state # "untouched" => pc \notin EnginePlaces

\* C8 witness: the engine fails on a glyph after an earlier glyph was
\* rasterized.
C8_Witness ==
    /\ pc = "error" /\ err = "engine"
    /\ rasterized /\ Len(letters) >= 1
    /\ file = Untouched

\* The value of the literal '0x' + digits as a byte of the table.
LiteralValue(lit) == IF Len(lit) = 2 THEN 16 * lit[1] + lit[2] ELSE lit[1]

\* Pixel p (from 1, leftmost first) read back from a row's literals: the
\* bytes in order, each most significant bit first.
DecodedBit(hexa, p) ==
    (LiteralValue(hexa[((p - 1) \div 8) + 1]) \div Pow2(7 - ((p - 1) % 8))) % 2

\* C2: for every max_width >= 1, the literals to_bitfield writes for a row,
\* read back as bytes with the leftmost pixel as the most significant bit of
\* the first byte, give the row's 1/0 comment string.
C2_RoundTrip ==
    (pc = "returned" /\ file.state = "open" /\ max_width >= 1)
       => \A r \in 1..Len(file.text[1]) :
             LET line == file.text[1][r]
             IN  /\ 8 * Len(line.hexa) >= max_width
                 /\ \A p \in 1..max_width :
                       line.com[p] = IF DecodedBit(line.hexa, p) = 1
                                     THEN OUTPUT_FILL ELSE OUTPUT_EMPTY

\* determine_final_height has returned.
Trimmed == pc \in {"open", "write", "done"}

\* Some glyph has a foreground row.
SomeInk == \E g \in 1..Len(masks) : \E i \in 1..Len(masks[g]) : masks[g][i]

\* C3: every row that is true in some glyph's RowMask is true in the
\* SharedRowMask together with the row above and the row below it (clamped
\* to the first and last row).
C3_Dilation ==
    Trimmed =>
       \A g \in 1..Len(masks) : \A i \in 1..Len(masks[g]) :
          masks[g][i] => /\ total_mask[IF i > 1 THEN i - 1 ELSE 1]
                         /\ total_mask[i]
                         /\ total_mask[IF i < Len(total_mask) THEN i + 1
                                       ELSE Len(total_mask)]

\* C3 witness: the masks [F,F,F] and [F,T,F] give [T,T,T] and height 3.
C3_Witness ==
    /\ pc = "open"
    /\ masks = << <<FALSE, FALSE, FALSE>>, <<FALSE, TRUE, FALSE>> >>
    /\ total_mask = <<TRUE, TRUE, TRUE>>
    /\ actual_height = 3

\* C5: actual_height is at most the canvas height, and is positive when
\* some glyph has a foreground row.
C5_HeightBounds ==
    Trimmed => /\ actual_height <= max_height
               /\ SomeInk => actual_height > 0

\* C5 witness: a glyph has ink and the crop is strictly smaller than the
\* canvas.
C5_Witness ==
    /\ Trimmed /\ SomeInk
    /\ 0 < actual_height /\ actual_height < max_height

\* The rows within distance 1 of a foreground row of some glyph.
NearInk ==
    {i \in 1..max_height :
        \E g \in 1..Len(masks) : \E j \in 1..max_height :
           masks[g][j] /\ i - j <= 1 /\ j - i <= 1}

\* The glyphs whose block has been written.
Written == IF pc = "write" THEN index ELSE IF pc = "done" THEN Len(letters) ELSE 0

\* C10: a row is in the SharedRowMask only if some glyph has a foreground
\* row within distance 1 of it, actual_height is the number of such rows,
\* and each written glyph consists of exactly these rows, top to bottom.
C10_Minimality ==
    Trimmed =>
       /\ \A i \in 1..Len(total_mask) : total_mask[i] => i \in NearInk
       /\ actual_height = Cardinality(NearInk)
       /\ \A g \in 1..Written :
             /\ Len(file.text[g + 1]) = Cardinality(NearInk)
             /\ \A i \in NearInk :
                   file.text[g + 1][Cardinality({j \in NearInk : j <= i})].com =
                      [c \in 1..max_width |->
                          IF letters[g][i][c] # 0 THEN OUTPUT_FILL ELSE OUTPUT_EMPTY]

\* C10 witness: the run is done, a glyph has ink, and a row far from every
\* foreground row was dropped.
C10_Witness ==
    /\ pc = "done" /\ SomeInk /\ max_width >= 1
    /\ \E i \in 1..Len(total_mask) : ~total_mask[i]

\* C9 as claimed: a pixel is "on" iff its raster value differs from the
\* background, gray levels included, and a row's mask entry is true iff the
\* row has such a pixel.
C9_NonBackgroundIsOn ==
    pc = "returned" /\ file = Untouched =>
       \A r \in 1..Len(image) :
          /\ \A c \in 1..Len(image[r]) :
                (letters[1][r][c] = ON) <=> (image[r][c] # BACKGROUND)
          /\ masks[1][r] <=> \E c \in 1..Len(image[r]) : image[r][c] # BACKGROUND

\* C9, amended: a pixel is "on" iff its raster value is 0; the gray levels
\* 1..254 are "off" like the background, every pixel is 0 or 255, and a
\* row's mask entry is true iff the row has a pixel of raster value 0.
C9_ZeroIsOn ==
    pc = "returned" /\ file = Untouched =>
       \A r \in 1..Len(image) :
          /\ \A c \in 1..Len(image[r]) :
                /\ letters[1][r][c] \in {0, ON}
                /\ (letters[1][r][c] = ON) <=> (image[r][c] = 0)
          /\ masks[1][r] <=> \E c \in 1..Len(image[r]) : image[r][c] = 0

\* C9 witness: a canvas with a gray pixel, which came out "off", beside a
\* pixel of full ink in another row.
C9_Witness ==
    /\ pc = "returned" /\ file = Untouched
    /\ \E r \in 1..Len(image) : \E c \in 1..Len(image[r]) :
          /\ image[r][c] \in 1..254
          /\ letters[1][r][c] = 0
          /\ ~masks[1][r]
    /\ \E r \in 1..Len(image) : masks[1][r]

==========================================================================
